---- MODULE Spec2Model ----
(***************************************************************************)
(* Chinchon game engine (package chinchon): the card/deck model, the hand  *)
(* analysis, the five action variants and the GameState orchestrator       *)
(* (New, RunAction, CloseRound, CalculatePossibleActions).                 *)
(*                                                                         *)
(* The Go struct GameState is the record g; a Hand is the sequence of its  *)
(* Cards; Go's 0-indexed RoundsLog[n] is RoundsLog[n + 1] here.            *)
(* Go iterates the Players map in an unspecified order: every operator     *)
(* whose result may depend on it takes the iteration order as `order`.     *)
(***************************************************************************)
EXTENDS Integers, Sequences, FiniteSets, TLC

\* ------------------------------------------------------------------ bounds
\* successful API calls (RunAction that returns nil, CloseRound) per run
MaxCalls == 4
\* direct calls of the exported CloseRound per run
MaxCloses == 1

\* ------------------------------------------------------------ deck.go
ORO == "oro"
COPA == "copa"
ESPADA == "espada"
BASTO == "basto"

Suits == <<ORO, COPA, ESPADA, BASTO>>

MaxNumber == 12

HandSize == 7

Card(s, n) == [Suit |-> s, Number |-> n]

\* the cards in the order makeSpanishCards builds them, before rand.Shuffle
SpanishCards ==
    [i \in 1..(Len(Suits) * MaxNumber) |->
        Card(Suits[((i - 1) \div MaxNumber) + 1], ((i - 1) % MaxNumber) + 1)]

AllCards == {SpanishCards[i] : i \in DOMAIN SpanishCards}

\* mutant: every card counts its number
PenaltyValueFace(c) == c.Number

PenaltyValue(c) == IF c.Number >= 10 THEN 10 ELSE c.Number

HasCard(h, c) == \E i \in 1..Len(h) : h[i] = c

AddCard(h, card) == Append(h, card)

\* removes the first occurrence of card; the hand unchanged if it is absent
\* (the Go method then returns errCardNotInHand)
RemoveCard(h, card) ==
    IF ~HasCard(h, card) THEN h
    ELSE LET i == CHOOSE k \in 1..Len(h) :
                    h[k] = card /\ \A m \in 1..(k - 1) : h[m] # card
         IN  SubSeq(h, 1, i - 1) \o SubSeq(h, i + 1, Len(h))

\* the exchange sort of findRuns / IsChinchon: ascending by Number
RECURSIVE SortByNumber(_)
SortByNumber(cards) ==
    IF Len(cards) <= 1 THEN cards
    ELSE LET i == CHOOSE k \in 1..Len(cards) :
                    /\ \A m \in 1..Len(cards) : cards[k].Number <= cards[m].Number
                    /\ \A m \in 1..(k - 1) : cards[m].Number # cards[k].Number
         IN  <<cards[i]>> \o
             SortByNumber(SubSeq(cards, 1, i - 1) \o SubSeq(cards, i + 1, Len(cards)))

CardsOfSuit(h, s) == SelectSeq(h, LAMBDA c : c.Suit = s)

CardsOfNumber(h, n) == SelectSeq(h, LAMBDA c : c.Number = n)

\* the inner loop of findRuns: extend run with cards[j], cards[j+1], ... while
\* each is one above the run's last card
RECURSIVE ExtendRun(_, _, _)
ExtendRun(cards, run, j) ==
    IF j > Len(cards) THEN run
    ELSE IF cards[j].Number = run[Len(run)].Number + 1
         THEN ExtendRun(cards, Append(run, cards[j]), j + 1)
         ELSE run

\* mutant: two cards in a row pass for a run
RunsOfSortedPairs(sorted) ==
    {r \in {ExtendRun(sorted, <<sorted[i]>>, i + 1) : i \in 1..(Len(sorted) - 2)} :
        Len(r) >= 2}

\* the sweep of findRuns over one suit's sorted cards: the greedy run from
\* each start index, kept when it has 3 cards or more
RunsOfSorted(sorted) ==
    {r \in {ExtendRun(sorted, <<sorted[i]>>, i + 1) : i \in 1..(Len(sorted) - 2)} :
        Len(r) >= 3}

\* the runs found in one suit's cards (none when the suit has under 3 cards)
RunsOfSuit(h, s) == RunsOfSorted(SortByNumber(CardsOfSuit(h, s)))

\* findRuns: the groups as a set (the Go slice's order follows map iteration)
findRuns(h) == UNION {RunsOfSuit(h, s) : s \in {h[i].Suit : i \in 1..Len(h)}}

findSets(h) ==
    {cards \in {CardsOfNumber(h, n) : n \in {h[i].Number : i \in 1..Len(h)}} :
        /\ Len(cards) >= 3
        /\ \A i, j \in 1..Len(cards) : i # j => cards[i].Suit # cards[j].Suit}

ValidGroups(h) == findRuns(h) \cup findSets(h)

\* mutant: ascending numbers pass for consecutive ones
ConsecutiveLoose(cards) ==
    \A i \in 2..Len(cards) : cards[i].Number > cards[i - 1].Number

Consecutive(cards) ==
    \A i \in 2..Len(cards) : cards[i].Number = cards[i - 1].Number + 1

IsChinchon(h) ==
    IF Len(h) # 7 THEN FALSE
    ELSE \E s \in {h[i].Suit : i \in 1..Len(h)} :
            /\ Len(CardsOfSuit(h, s)) = 7
            /\ Consecutive(SortByNumber(CardsOfSuit(h, s)))

\* the cards of h claimed by at least one group
groupedCards(groups) == UNION {{grp[i] : i \in 1..Len(grp)} : grp \in groups}

RECURSIVE SumPenalty(_, _)
SumPenalty(h, grouped) ==
    IF Len(h) = 0 THEN 0
    ELSE (IF h[1] \in grouped THEN 0 ELSE PenaltyValue(h[1]))
         + SumPenalty(Tail(h), grouped)

PenaltyPoints(h, groups) == SumPenalty(h, groupedCards(groups))

\* mutant: the deal loop stops one card short
DealCountShort(cards) == IF Len(cards) < HandSize - 1 THEN Len(cards) ELSE HandSize - 1

\* defaultDealHand: up to 7 cards off the front of the deck
DealCount(cards) == IF Len(cards) < HandSize THEN Len(cards) ELSE HandSize

defaultDealHand(cards) ==
    [hand |-> SubSeq(cards, 1, DealCount(cards)),
     cards |-> SubSeq(cards, DealCount(cards) + 1, Len(cards))]


\* ------------------------------------------------------------ actions.go
DRAW_FROM_DECK == "draw_from_deck"
DRAW_FROM_DISCARD == "draw_from_discard"
DISCARD_CARD == "discard_card"
CLOSE_ROUND == "close_round"
CONFIRM_ROUND_FINISHED == "confirm_round_finished"

NewActionDrawFromDeck(playerID) == [Name |-> DRAW_FROM_DECK, PlayerID |-> playerID]

NewActionDrawFromDiscard(playerID) == [Name |-> DRAW_FROM_DISCARD, PlayerID |-> playerID]

NewActionDiscardCard(card, playerID) ==
    [Name |-> DISCARD_CARD, PlayerID |-> playerID, Card |-> card]

NewActionClose(playerID) == [Name |-> CLOSE_ROUND, PlayerID |-> playerID]

NewActionConfirmRoundFinished(playerID) ==
    [Name |-> CONFIRM_ROUND_FINISHED, PlayerID |-> playerID]

\* a nil Action interface value
NilAction == [Name |-> "nil"]

GetPriority(a) == 0

AllowLowerPriority(a) == FALSE

\* mutant: every action, a draw included, yields the turn
YieldsTurnAlways(a) == TRUE

YieldsTurn(a) ==
    CASE a.Name = DRAW_FROM_DECK -> FALSE
      [] a.Name = DRAW_FROM_DISCARD -> FALSE
      [] a.Name = DISCARD_CARD -> TRUE
      [] a.Name = CLOSE_ROUND -> TRUE
      [] a.Name = CONFIRM_ROUND_FINISHED -> FALSE

\* ------------------------------------------------------------ game state
PlayerIDs == {0, 1}

\* the orders in which a range over the Players map may visit the two keys
Orders == {<<0, 1>>, <<1, 0>>}

errActionNotPossible == "action not possible"
errGameIsEnded == "game is ended"
errNotYourTurn == "not your turn"
noErr == "nil"

DefaultMaxPoints == 100

\* the first key the iteration visits that differs from playerID
OpponentOf(order, playerID) ==
    IF order[1] # playerID THEN order[1]
    ELSE IF order[2] # playerID THEN order[2]
    ELSE -1

\* the number of cards of hand that are in no group
ungroupedCount(hand, grouped) ==
    Cardinality({i \in 1..Len(hand) : hand[i] \notin grouped})

\* mutant: the number of cards held is not checked
CanCloseAnySize(g, playerID) ==
    IF g.IsRoundFinished THEN FALSE
    ELSE ungroupedCount(g.Players[playerID].Hand,
                        groupedCards(ValidGroups(g.Players[playerID].Hand))) <= 1

CanClose(g, playerID) ==
    IF g.IsRoundFinished THEN FALSE
    ELSE IF Len(g.Players[playerID].Hand) # 7 THEN FALSE
    ELSE ungroupedCount(g.Players[playerID].Hand,
                        groupedCards(ValidGroups(g.Players[playerID].Hand))) <= 1

DrawFromDeckIsPossible(a, g) ==
    IF g.IsRoundFinished \/ g.IsGameEnded THEN FALSE
    ELSE IF a.PlayerID # g.TurnPlayerID THEN FALSE
    ELSE IF g.HasDrawnCard THEN FALSE
    ELSE Len(g.DrawPile) # 0

DrawFromDiscardIsPossible(a, g) ==
    IF g.IsRoundFinished \/ g.IsGameEnded THEN FALSE
    ELSE IF a.PlayerID # g.TurnPlayerID THEN FALSE
    ELSE IF g.HasDrawnCard THEN FALSE
    ELSE Len(g.DiscardPile) > 0

DiscardCardIsPossible(a, g) ==
    IF g.IsRoundFinished \/ g.IsGameEnded THEN FALSE
    ELSE IF a.PlayerID # g.TurnPlayerID THEN FALSE
    ELSE IF ~g.HasDrawnCard THEN FALSE
    ELSE HasCard(g.Players[a.PlayerID].Hand, a.Card)

\* mutant: a round may be closed before a card is drawn
CloseIsPossibleBeforeDraw(a, g) ==
    IF g.IsRoundFinished \/ g.IsGameEnded THEN FALSE
    ELSE IF a.PlayerID # g.TurnPlayerID THEN FALSE
    ELSE CanClose(g, a.PlayerID)

CloseIsPossible(a, g) ==
    IF g.IsRoundFinished \/ g.IsGameEnded THEN FALSE
    ELSE IF a.PlayerID # g.TurnPlayerID THEN FALSE
    ELSE IF ~g.HasDrawnCard THEN FALSE
    ELSE CanClose(g, a.PlayerID)

ConfirmRoundFinishedIsPossible(a, g) ==
    IF ~g.IsRoundFinished \/ g.IsGameEnded THEN FALSE
    ELSE a.PlayerID \notin g.RoundFinishedConfirmedPlayerIDs

IsPossible(a, g) ==
    CASE a.Name = DRAW_FROM_DECK -> DrawFromDeckIsPossible(a, g)
      [] a.Name = DRAW_FROM_DISCARD -> DrawFromDiscardIsPossible(a, g)
      [] a.Name = DISCARD_CARD -> DiscardCardIsPossible(a, g)
      [] a.Name = CLOSE_ROUND -> CloseIsPossible(a, g)
      [] a.Name = CONFIRM_ROUND_FINISHED -> ConfirmRoundFinishedIsPossible(a, g)

\* the Chinchon exit of CloseRound: player p's hand ends the game
closeByChinchon(g, p, order) ==
    [g EXCEPT !.IsGameEnded = TRUE,
              !.WinnerPlayerID = p,
              !.LoserPlayerID = OpponentOf(order, p),
              !.RoundsLog[g.RoundNumber + 1].WasChinchon = TRUE]

roundWinner(penaltyPoints) ==
    IF penaltyPoints[0] < penaltyPoints[1] THEN 0
    ELSE IF penaltyPoints[1] < penaltyPoints[0] THEN 1
    ELSE -1

roundLoser(penaltyPoints) ==
    IF penaltyPoints[0] < penaltyPoints[1] THEN 1
    ELSE IF penaltyPoints[1] < penaltyPoints[0] THEN 0
    ELSE -1

\* mutant: the 10-point bonus is never added
awardWithoutBonus(players, closingPlayerID, penaltyPoints, opponentID) ==
    IF closingPlayerID # -1 /\ roundWinner(penaltyPoints) = closingPlayerID
    THEN [players EXCEPT ![opponentID].Score = @ + penaltyPoints[opponentID]]
    ELSE [p \in PlayerIDs |-> [players[p] EXCEPT !.Score = @ + penaltyPoints[p]]]

\* mutant: the closer is treated as round winner on a tie too
awardOnTieToo(players, closingPlayerID, penaltyPoints, opponentID) ==
    IF closingPlayerID # -1 /\ roundLoser(penaltyPoints) # closingPlayerID
    THEN [players EXCEPT ![opponentID].Score =
            @ + penaltyPoints[opponentID]
              + (IF penaltyPoints[closingPlayerID] = 0 THEN 10 ELSE 0)]
    ELSE [p \in PlayerIDs |-> [players[p] EXCEPT !.Score = @ + penaltyPoints[p]]]

\* mutant: the 10-point bonus is added whatever the closer's penalty
awardBonusAlways(players, closingPlayerID, penaltyPoints, opponentID) ==
    IF closingPlayerID # -1 /\ roundWinner(penaltyPoints) = closingPlayerID
    THEN [players EXCEPT ![opponentID].Score = @ + penaltyPoints[opponentID] + 10]
    ELSE [p \in PlayerIDs |-> [players[p] EXCEPT !.Score = @ + penaltyPoints[p]]]

\* mutant: penalties are taken off the scores
awardNegated(players, closingPlayerID, penaltyPoints, opponentID) ==
    [p \in PlayerIDs |-> [players[p] EXCEPT !.Score = @ - penaltyPoints[p]]]

\* "Award penalty points": the players after scoring
awardPenaltyPoints(players, closingPlayerID, penaltyPoints, opponentID) ==
    IF closingPlayerID # -1 /\ roundWinner(penaltyPoints) = closingPlayerID
    THEN [players EXCEPT ![opponentID].Score =
            @ + penaltyPoints[opponentID]
              + (IF penaltyPoints[closingPlayerID] = 0 THEN 10 ELSE 0)]
    ELSE [p \in PlayerIDs |-> [players[p] EXCEPT !.Score = @ + penaltyPoints[p]]]

\* the scoring part of CloseRound, no hand being a Chinchon
closeByPenalty(g, closingPlayerID, penaltyPoints, order) ==
    [g EXCEPT !.Players = awardPenaltyPoints(@, closingPlayerID, penaltyPoints,
                                             OpponentOf(order, closingPlayerID)),
              !.RoundsLog[g.RoundNumber + 1].WinnerPlayerID = roundWinner(penaltyPoints),
              !.RoundsLog[g.RoundNumber + 1].LoserPlayerID = roundLoser(penaltyPoints),
              !.RoundsLog[g.RoundNumber + 1].PenaltyPoints = penaltyPoints,
              !.RoundsLog[g.RoundNumber + 1].ClosedByPlayerID = closingPlayerID]

\* mutant: the Chinchon check is skipped and the round is scored by penalty
closeMarkedByPenaltyOnly(g, closingPlayerID, order) ==
    closeByPenalty(g, closingPlayerID,
        [p \in PlayerIDs |->
            PenaltyPoints(g.Players[p].Hand, ValidGroups(g.Players[p].Hand))],
        order)

\* the body of CloseRound once the round is marked finished
closeMarked(g, closingPlayerID, order) ==
    IF IsChinchon(g.Players[order[1]].Hand) THEN closeByChinchon(g, order[1], order)
    ELSE IF IsChinchon(g.Players[order[2]].Hand) THEN closeByChinchon(g, order[2], order)
    ELSE closeByPenalty(g, closingPlayerID,
            [p \in PlayerIDs |->
                PenaltyPoints(g.Players[p].Hand, ValidGroups(g.Players[p].Hand))],
            order)

\* CloseRound: the state after the call; order is the Players iteration order
CloseRound(g, closingPlayerID, order) ==
    closeMarked([g EXCEPT !.IsRoundFinished = TRUE,
                          !.CurrentRoundClosedByPlayerID = closingPlayerID],
                closingPlayerID, order)

\* mutant: the draw does not mark the turn as drawn
DrawFromDeckRunUnmarked(a, g) ==
    [g EXCEPT !.Players[a.PlayerID].Hand = AddCard(@, Head(g.DrawPile)),
              !.DrawPile = Tail(@)]

DrawFromDeckRun(a, g) ==
    [g EXCEPT !.Players[a.PlayerID].Hand = AddCard(@, Head(g.DrawPile)),
              !.DrawPile = Tail(@),
              !.HasDrawnCard = TRUE]

DrawFromDiscardRun(a, g) ==
    [g EXCEPT !.Players[a.PlayerID].Hand = AddCard(@, g.DiscardPile[Len(g.DiscardPile)]),
              !.DiscardPile = SubSeq(@, 1, Len(@) - 1),
              !.HasDrawnCard = TRUE]

\* mutant: the discarded card stays in the hand
DiscardCardRunKeepsCard(a, g) ==
    [g EXCEPT !.DiscardPile = Append(@, a.Card)]

\* mutant: the discarded card leaves the hand but is not put on the pile
DiscardCardRunDropsCard(a, g) ==
    [g EXCEPT !.Players[a.PlayerID].Hand = RemoveCard(@, a.Card)]

DiscardCardRun(a, g) ==
    [g EXCEPT !.Players[a.PlayerID].Hand = RemoveCard(@, a.Card),
              !.DiscardPile = Append(@, a.Card)]

CloseRun(a, g, order) == CloseRound(g, a.PlayerID, order)

ConfirmRoundFinishedRun(a, g) ==
    [g EXCEPT !.RoundFinishedConfirmedPlayerIDs = @ \cup {a.PlayerID}]

\* Action.Run, called by RunAction once IsPossible has held
Run(a, g, order) ==
    CASE a.Name = DRAW_FROM_DECK -> DrawFromDeckRun(a, g)
      [] a.Name = DRAW_FROM_DISCARD -> DrawFromDiscardRun(a, g)
      [] a.Name = DISCARD_CARD -> DiscardCardRun(a, g)
      [] a.Name = CLOSE_ROUND -> CloseRun(a, g, order)
      [] a.Name = CONFIRM_ROUND_FINISHED -> ConfirmRoundFinishedRun(a, g)

\* json.Marshal of an action: the embedded act's name and playerID, and the
\* card of a discard
SerializeCard(c) == [suit |-> c.Suit, number |-> c.Number]

SerializeAction(a) ==
    IF a.Name = DISCARD_CARD
    THEN [name |-> a.Name, playerID |-> a.PlayerID, card |-> SerializeCard(a.Card)]
    ELSE [name |-> a.Name, playerID |-> a.PlayerID]

\* the value of key in a JSON object, or the zero value when the key is absent
jsonField(doc, key, zero) == IF key \in DOMAIN doc THEN doc[key] ELSE zero

ActionNames ==
    {DRAW_FROM_DECK, DRAW_FROM_DISCARD, DISCARD_CARD, CLOSE_ROUND, CONFIRM_ROUND_FINISHED}

errUnknownAction == "unknown action"

\* json.Unmarshal into a Card
DeserializeCard(doc) ==
    Card(jsonField(doc, "suit", ""), jsonField(doc, "number", 0))

\* mutant: the card of a discard is not read back
DeserializeActionNoCard(bs) ==
    IF jsonField(bs, "name", "") \notin ActionNames
    THEN [action |-> NilAction, err |-> errUnknownAction]
    ELSE [action |-> [Name |-> jsonField(bs, "name", ""),
                      PlayerID |-> jsonField(bs, "playerID", 0)],
          err |-> noErr]

\* DeserializeAction: the name picks the variant, then the document is
\* unmarshalled into it; the action and the error returned
DeserializeAction(bs) ==
    IF jsonField(bs, "name", "") \notin ActionNames
    THEN [action |-> NilAction, err |-> errUnknownAction]
    ELSE IF jsonField(bs, "name", "") = DISCARD_CARD
    THEN [action |-> [Name |-> jsonField(bs, "name", ""),
                      PlayerID |-> jsonField(bs, "playerID", 0),
                      Card |-> DeserializeCard(jsonField(bs, "card", <<>>))],
          err |-> noErr]
    ELSE [action |-> [Name |-> jsonField(bs, "name", ""),
                      PlayerID |-> jsonField(bs, "playerID", 0)],
          err |-> noErr]

_serializeActions(as) == [i \in 1..Len(as) |-> SerializeAction(as[i])]

\* mutant: no confirmation is offered to the player who is not to act
allActionsOfTurnPlayer(g) ==
    (IF ~g.HasDrawnCard /\ ~g.IsRoundFinished
     THEN <<NewActionDrawFromDeck(g.TurnPlayerID), NewActionDrawFromDiscard(g.TurnPlayerID)>>
     ELSE <<>>)
    \o (IF g.HasDrawnCard /\ ~g.IsRoundFinished
        THEN [i \in 1..Len(g.Players[g.TurnPlayerID].Hand) |->
                NewActionDiscardCard(g.Players[g.TurnPlayerID].Hand[i], g.TurnPlayerID)]
        ELSE <<>>)
    \o (IF CanClose(g, g.TurnPlayerID) /\ g.HasDrawnCard
        THEN <<NewActionClose(g.TurnPlayerID)>>
        ELSE <<>>)
    \o <<NewActionConfirmRoundFinished(g.TurnPlayerID)>>

\* the candidate list CalculatePossibleActions builds before filtering
allActions(g) ==
    (IF ~g.HasDrawnCard /\ ~g.IsRoundFinished
     THEN <<NewActionDrawFromDeck(g.TurnPlayerID), NewActionDrawFromDiscard(g.TurnPlayerID)>>
     ELSE <<>>)
    \o (IF g.HasDrawnCard /\ ~g.IsRoundFinished
        THEN [i \in 1..Len(g.Players[g.TurnPlayerID].Hand) |->
                NewActionDiscardCard(g.Players[g.TurnPlayerID].Hand[i], g.TurnPlayerID)]
        ELSE <<>>)
    \o (IF CanClose(g, g.TurnPlayerID) /\ g.HasDrawnCard
        THEN <<NewActionClose(g.TurnPlayerID)>>
        ELSE <<>>)
    \o <<NewActionConfirmRoundFinished(g.TurnPlayerID),
         NewActionConfirmRoundFinished(g.TurnOpponentPlayerID)>>

\* the filtering loop of CalculatePossibleActions, with its priority sweep
RECURSIVE filterActions(_, _, _, _)
filterActions(g, all, priority, possibleActions) ==
    IF Len(all) = 0 THEN possibleActions
    ELSE LET action == Head(all)
         IN  IF ~IsPossible(action, g)
             THEN filterActions(g, Tail(all), priority, possibleActions)
             ELSE IF GetPriority(action) < priority
             THEN filterActions(g, Tail(all), priority, possibleActions)
             ELSE IF GetPriority(action) > priority /\ ~AllowLowerPriority(action)
             THEN filterActions(g, Tail(all), GetPriority(action), <<action>>)
             ELSE filterActions(g, Tail(all), priority, Append(possibleActions, action))

CalculatePossibleActions(g) == filterActions(g, allActions(g), 0, <<>>)

countActionsOf(as, playerID) ==
    Cardinality({i \in 1..Len(as) : as[i].PlayerID = playerID})

countActionsOfTurnPlayer(g) == countActionsOf(CalculatePossibleActions(g), g.TurnPlayerID)

\* mutant: the flag is reset but the turn stays where it is
changeTurnResetOnly(g) == [g EXCEPT !.HasDrawnCard = FALSE]

changeTurn(g) ==
    [g EXCEPT !.TurnPlayerID = g.TurnOpponentPlayerID,
              !.TurnOpponentPlayerID = g.TurnPlayerID,
              !.HasDrawnCard = FALSE]

NewRoundLog(handsDealt) ==
    [HandsDealt |-> handsDealt,
     WinnerPlayerID |-> -1,
     LoserPlayerID |-> -1,
     PenaltyPoints |-> [p \in {} |-> 0],
     ClosedByPlayerID |-> -1,
     WasChinchon |-> FALSE,
     ActionsLog |-> <<>>]

\* the zero RoundLog New puts at index 0
ZeroRoundLog ==
    [HandsDealt |-> [p \in {} |-> <<>>],
     WinnerPlayerID |-> 0,
     LoserPlayerID |-> 0,
     PenaltyPoints |-> [p \in {} |-> 0],
     ClosedByPlayerID |-> 0,
     WasChinchon |-> FALSE,
     ActionsLog |-> <<>>]

\* mutant: only the first possible action is stored
storeFirstAction(g) ==
    [g EXCEPT !.PossibleActions =
        SubSeq(_serializeActions(CalculatePossibleActions(g)), 1, 1)]

\* the last statement of startNewRound and of RunAction
storePossibleActions(g) ==
    [g EXCEPT !.PossibleActions = _serializeActions(CalculatePossibleActions(g))]

\* startNewRound from the two dealt hands on: rest is the deck after both deals
dealtRound(g, hands, rest, order) ==
    [g EXCEPT
        !.DrawPile = IF Len(rest) # 0 THEN Tail(rest) ELSE rest,
        !.RoundNumber = @ + 1,
        !.TurnPlayerID = IF g.RoundNumber + 1 = 1 THEN 0 ELSE OpponentOf(order, @),
        !.TurnOpponentPlayerID =
            OpponentOf(order, IF g.RoundNumber + 1 = 1 THEN 0
                              ELSE OpponentOf(order, g.TurnPlayerID)),
        !.Players = [p \in PlayerIDs |-> [@[p] EXCEPT !.Hand = hands[p]]],
        !.DiscardPile = IF Len(rest) # 0 THEN <<Head(rest)>> ELSE @,
        !.IsRoundFinished = FALSE,
        !.CurrentRoundClosedByPlayerID = -1,
        !.RoundFinishedConfirmedPlayerIDs = {},
        !.HasDrawnCard = FALSE,
        !.RoundsLog = Append(@, NewRoundLog(hands))]

\* the two dealHand calls of startNewRound: player 0's hand, then player 1's
dealBoth(cards) ==
    [hands |-> [p \in PlayerIDs |->
                    IF p = 0 THEN defaultDealHand(cards).hand
                    ELSE defaultDealHand(defaultDealHand(cards).cards).hand],
     rest |-> defaultDealHand(defaultDealHand(cards).cards).cards]

\* mutant: the confirmations of the finished round survive into the new one
startNewRoundKeepsConfirmations(g, cards, order) ==
    storePossibleActions(
        [dealtRound(g, dealBoth(cards).hands, dealBoth(cards).rest, order)
            EXCEPT !.RoundFinishedConfirmedPlayerIDs = g.RoundFinishedConfirmedPlayerIDs])

\* startNewRound; cards is the deck shuffle() builds, order the map order
startNewRound(g, cards, order) ==
    storePossibleActions(dealtRound(g, dealBoth(cards).hands, dealBoth(cards).rest, order))

\* New(WithMaxPoints(maxPoints)); newDeck's cards are replaced by the shuffle
\* of startNewRound before any use
New(maxPoints, cards, order) ==
    startNewRound(
        [RoundNumber |-> 0,
         TurnPlayerID |-> 0,
         TurnOpponentPlayerID |-> 0,
         Players |-> [p \in PlayerIDs |-> [Hand |-> <<>>, Score |-> 0]],
         DrawPile |-> cards,
         DiscardPile |-> <<>>,
         PossibleActions |-> <<>>,
         IsRoundFinished |-> FALSE,
         IsGameEnded |-> FALSE,
         WinnerPlayerID |-> -1,
         LoserPlayerID |-> -1,
         RoundsLog |-> <<ZeroRoundLog>>,
         RoundFinishedConfirmedPlayerIDs |-> {},
         RuleMaxPoints |-> maxPoints,
         CurrentRoundClosedByPlayerID |-> -1,
         HasDrawnCard |-> FALSE],
        cards, order)

\* mutant: the player who reached the maximum is recorded as the winner
RECURSIVE endByScoreSwapped(_, _, _)
endByScoreSwapped(g, order, k) ==
    IF k > Len(order) THEN g
    ELSE IF g.Players[order[k]].Score >= g.RuleMaxPoints
         THEN endByScoreSwapped([g EXCEPT !.IsGameEnded = TRUE,
                                          !.WinnerPlayerID = order[k],
                                          !.LoserPlayerID = OpponentOf(order, order[k])],
                                order, k + 1)
         ELSE endByScoreSwapped(g, order, k + 1)

\* the loop "Handle end of game due to score": the last player visited whose
\* score meets the maximum is recorded as loser
RECURSIVE endByScore(_, _, _)
endByScore(g, order, k) ==
    IF k > Len(order) THEN g
    ELSE IF g.Players[order[k]].Score >= g.RuleMaxPoints
         THEN endByScore([g EXCEPT !.IsGameEnded = TRUE,
                                   !.LoserPlayerID = order[k],
                                   !.WinnerPlayerID = OpponentOf(order, order[k])],
                         order, k + 1)
         ELSE endByScore(g, order, k + 1)

\* mutant: confirmations are logged too
logActionAlways(g, action) ==
    [g EXCEPT !.RoundsLog[g.RoundNumber + 1].ActionsLog =
        Append(@, [PlayerID |-> g.TurnPlayerID, Action |-> SerializeAction(action)])]

\* "if action.GetName() != CONFIRM_ROUND_FINISHED": the action log entry
logAction(g, action) ==
    IF action.Name # CONFIRM_ROUND_FINISHED
    THEN [g EXCEPT !.RoundsLog[g.RoundNumber + 1].ActionsLog =
            Append(@, [PlayerID |-> g.TurnPlayerID, Action |-> SerializeAction(action)])]
    ELSE g

\* mutant: the turn switches but the has-drawn flag is not reset
switchTurnKeepsDrawn(g, action) ==
    IF ~g.IsGameEnded /\ ~g.IsRoundFinished /\ YieldsTurn(action)
    THEN [g EXCEPT !.TurnPlayerID = g.TurnOpponentPlayerID,
                   !.TurnOpponentPlayerID = g.TurnPlayerID]
    ELSE g

\* "Switch player turn within current round"
switchTurn(g, action) ==
    IF ~g.IsGameEnded /\ ~g.IsRoundFinished /\ YieldsTurn(action)
    THEN [g EXCEPT !.TurnPlayerID = g.TurnOpponentPlayerID,
                   !.TurnOpponentPlayerID = g.TurnPlayerID,
                   !.HasDrawnCard = FALSE]
    ELSE g

\* the turn goes to the player who has not confirmed yet
passToUnconfirmed(g) ==
    IF /\ ~g.IsGameEnded /\ g.IsRoundFinished
       /\ Cardinality(g.RoundFinishedConfirmedPlayerIDs) = 1
       /\ g.TurnPlayerID \in g.RoundFinishedConfirmedPlayerIDs
    THEN changeTurn(g)
    ELSE g

\* "If the current player has no actions left, it's the opponent's turn."
skipIdlePlayer(g) == IF countActionsOfTurnPlayer(g) = 0 THEN changeTurn(g) ELSE g

\* RunAction from the action log entry on; g is the state after action.Run
afterRun(g, action, cards, order) ==
    IF ~g.IsGameEnded /\ g.IsRoundFinished
       /\ Cardinality(g.RoundFinishedConfirmedPlayerIDs) = 2
    THEN startNewRound(g, cards, order)
    ELSE storePossibleActions(
            skipIdlePlayer(endByScore(passToUnconfirmed(switchTurn(g, action)), order, 1)))

\* RunAction after its three checks have passed
applyAction(g, action, cards, order) ==
    afterRun(logAction(Run(action, g, order), action), action, cards, order)

\* mutant: the turn is checked before the end of the game
checkActionTurnFirst(g, action) ==
    IF ~g.IsRoundFinished /\ action.PlayerID # g.TurnPlayerID THEN errNotYourTurn
    ELSE IF g.IsGameEnded THEN errGameIsEnded
    ELSE IF ~IsPossible(action, g) THEN errActionNotPossible
    ELSE noErr

\* mutant: the end of the game is not checked
checkActionNoEndCheck(g, action) ==
    IF ~g.IsRoundFinished /\ action.PlayerID # g.TurnPlayerID THEN errNotYourTurn
    ELSE IF ~IsPossible(action, g) THEN errActionNotPossible
    ELSE noErr

\* the three checks RunAction makes before running the action: the error it
\* returns, or noErr when the action is to be run
checkAction(g, action) ==
    IF g.IsGameEnded THEN errGameIsEnded
    ELSE IF ~g.IsRoundFinished /\ action.PlayerID # g.TurnPlayerID THEN errNotYourTurn
    ELSE IF ~IsPossible(action, g) THEN errActionNotPossible
    ELSE noErr

\* mutant: the action is logged before it is checked
RunActionLogsFirst(g, action, cards, order) ==
    IF action = NilAction THEN [g |-> g, err |-> noErr]
    ELSE IF checkAction(g, action) # noErr
         THEN [g |-> logAction(g, action), err |-> checkAction(g, action)]
    ELSE [g |-> applyAction(g, action, cards, order), err |-> noErr]

\* RunAction: the state after the call and the error it returns
RunAction(g, action, cards, order) ==
    IF action = NilAction THEN [g |-> g, err |-> noErr]
    ELSE IF checkAction(g, action) # noErr THEN [g |-> g, err |-> checkAction(g, action)]
    ELSE [g |-> applyAction(g, action, cards, order), err |-> noErr]

\* the outcome of a call that dereferences the nil *Player of a missing key
Panic == [panic |-> "nil pointer dereference"]

\* mutant: the actions of the other player are kept
unfilteredPossibleActions(g, youPlayerID) == CalculatePossibleActions(g)

\* the viewer's own actions among the possible ones
filteredPossibleActions(g, youPlayerID) ==
    SelectSeq(CalculatePossibleActions(g), LAMBDA a : a.PlayerID = youPlayerID)

\* a *Card: <<>> for nil, else the top card of the discard pile
topDiscardCard(g) ==
    IF Len(g.DiscardPile) > 0 THEN <<g.DiscardPile[Len(g.DiscardPile)]>> ELSE <<>>

\* an *ActionLog: <<>> for nil, else the last entry of the round's action log
LastActionLog(g) ==
    IF Len(g.RoundsLog[g.RoundNumber + 1].ActionsLog) > 0
    THEN <<g.RoundsLog[g.RoundNumber + 1].ActionsLog[
              Len(g.RoundsLog[g.RoundNumber + 1].ActionsLog)]>>
    ELSE <<>>

\* mutant: the opponent's cards are sent instead of their number
theirHandShown(g, themPlayerID) == g.Players[themPlayerID].Hand

TheirHandSize(g, themPlayerID) == Len(g.Players[themPlayerID].Hand)

\* the ClientGameState literal, youPlayerID and themPlayerID being players
clientGameState(g, youPlayerID, themPlayerID) ==
    [RoundNumber |-> g.RoundNumber,
     TurnPlayerID |-> g.TurnPlayerID,
     YouPlayerID |-> youPlayerID,
     ThemPlayerID |-> themPlayerID,
     YourScore |-> g.Players[youPlayerID].Score,
     TheirScore |-> g.Players[themPlayerID].Score,
     YourHand |-> g.Players[youPlayerID].Hand,
     TheirHandSize |-> TheirHandSize(g, themPlayerID),
     TopDiscardCard |-> topDiscardCard(g),
     DrawPileSize |-> Len(g.DrawPile),
     PossibleActions |-> _serializeActions(filteredPossibleActions(g, youPlayerID)),
     IsGameEnded |-> g.IsGameEnded,
     IsRoundFinished |-> g.IsRoundFinished,
     WinnerPlayerID |-> g.WinnerPlayerID,
     LoserPlayerID |-> g.LoserPlayerID,
     LastActionLog |-> LastActionLog(g),
     RuleMaxPoints |-> g.RuleMaxPoints,
     HasDrawnCard |-> g.HasDrawnCard]

\* ToClientGameState(youPlayerID); order is the Players iteration order.
\* g.Players[youPlayerID] is nil for an id that is no key of Players, and
\* reading its Score panics
ToClientGameState(g, youPlayerID, order) ==
    IF youPlayerID \notin DOMAIN g.Players THEN Panic
    ELSE clientGameState(g, youPlayerID, OpponentOf(order, youPlayerID))

\* ------------------------------------------------------------ environment
\* outcomes of rand.Shuffle the model explores, each a permutation of the deck
ByNumberDeck ==
    [i \in 1..Len(SpanishCards) |->
        Card(Suits[((i - 1) % Len(Suits)) + 1], ((i - 1) \div Len(Suits)) + 1)]

DeckWithPrefix(prefix) ==
    prefix \o SelectSeq(SpanishCards, LAMBDA c : ~HasCard(prefix, c))

\* both hands are fully grouped (a run of 4 and a set of 3 each): penalties 0, 0
TieDeck ==
    DeckWithPrefix(<<Card(ORO, 1), Card(ORO, 2), Card(ORO, 3), Card(COPA, 5),
                     Card(ESPADA, 5), Card(BASTO, 5), Card(ORO, 4),
                     Card(COPA, 1), Card(COPA, 2), Card(COPA, 3), Card(ESPADA, 7),
                     Card(BASTO, 7), Card(ORO, 7), Card(COPA, 4)>>)

Shuffles == {SpanishCards, ByNumberDeck, TieDeck}

\* values passed to WithMaxPoints
MaxPointsOptions == {0, 4, DefaultMaxPoints}

\* player ids a submitted action may carry: the two players and a stranger
ActionPlayerIDs == PlayerIDs \cup {2}

\* closing ids passed to CloseRound
ClosingPlayerIDs == PlayerIDs \cup {-1}

\* viewer ids passed to ToClientGameState: the two players and two others
ViewerIDs == PlayerIDs \cup {-1, 2}

VARIABLES
    g,       \* the GameState
    call,    \* the last API call made on it
    err,     \* the error that call returned
    calls,   \* successful calls so far
    closes   \* direct CloseRound calls so far

vars == <<g, call, err, calls, closes>>

\* cards offered for discarding: the first and the last card of the turn
\* player's hand, and one the turn player does not hold
DiscardCandidates ==
    {g.Players[g.TurnPlayerID].Hand[1],
     g.Players[g.TurnPlayerID].Hand[Len(g.Players[g.TurnPlayerID].Hand)],
     g.Players[g.TurnOpponentPlayerID].Hand[1]}

Inputs ==
    {NilAction}
    \cup {NewActionDrawFromDeck(p) : p \in PlayerIDs}
    \cup {NewActionDrawFromDiscard(p) : p \in PlayerIDs}
    \cup {NewActionDiscardCard(c, p) : c \in DiscardCandidates, p \in PlayerIDs}
    \cup {NewActionClose(p) : p \in PlayerIDs}
    \cup {NewActionConfirmRoundFinished(p) : p \in ActionPlayerIDs}

Init ==
    /\ \E maxPoints \in MaxPointsOptions, cards \in Shuffles, order \in Orders :
          /\ g = New(maxPoints, cards, order)
          /\ call = [op |-> "New", maxPoints |-> maxPoints]
    /\ err = noErr
    /\ calls = 0
    /\ closes = 0

\* the shuffles a call of RunAction(action) may consume: shuffle() runs only
\* when a confirmation of a finished round starts the next one
ShufflesFor(action) ==
    IF g.IsRoundFinished /\ action.Name = CONFIRM_ROUND_FINISHED
    THEN Shuffles
    ELSE {SpanishCards}

\* the call RunAction(action) returning r
Returned(action, r) ==
    /\ g' = r.g
    /\ err' = r.err
    /\ call' = [op |-> "RunAction", action |-> action]

\* a call of g.RunAction(action) that runs the action
RunActionApplies ==
    /\ calls < MaxCalls
    /\ \E action \in Inputs \ {NilAction} :
          /\ checkAction(g, action) = noErr
          /\ \E order \in Orders, cards \in ShufflesFor(action) :
                Returned(action, RunAction(g, action, cards, order))
    /\ calls' = calls + 1
    /\ UNCHANGED closes

\* a call of g.RunAction(action) that returns before running the action: a nil
\* action, or one of the three errors (no shuffle, no map iteration happens)
RunActionReturns ==
    /\ \E action \in Inputs :
          /\ IF action = NilAction THEN TRUE ELSE checkAction(g, action) # noErr
          /\ Returned(action, RunAction(g, action, SpanishCards, <<0, 1>>))
    /\ UNCHANGED <<calls, closes>>

\* one call of g.CloseRound(closingPlayerID), made as its caller ActionClose.Run
\* makes it: on a round that is not finished, in a game that has not ended
CloseRoundCall ==
    /\ calls < MaxCalls
    /\ closes < MaxCloses
    /\ ~g.IsRoundFinished
    /\ ~g.IsGameEnded
    /\ \E closingPlayerID \in ClosingPlayerIDs, order \in Orders :
          /\ g' = CloseRound(g, closingPlayerID, order)
          /\ call' = [op |-> "CloseRound", closingPlayerID |-> closingPlayerID]
    /\ err' = noErr
    /\ calls' = calls + 1
    /\ closes' = closes + 1

RunActionCall == RunActionApplies \/ RunActionReturns

Next == RunActionApplies \/ RunActionReturns \/ CloseRoundCall

\* the whole exported API: RunAction and CloseRound
Spec == Init /\ [][Next]_vars

\* RunAction alone, "the sole mutation entry point"
NextRun == RunActionApplies \/ RunActionReturns

SpecRun == Init /\ [][NextRun]_vars


\* ------------------------------------------- a round with the pile run down
\* one turn in which the turn player draws from the draw pile and discards the
\* card drawn: two RunAction calls
playTurn(state) ==
    RunAction(RunAction(state, NewActionDrawFromDeck(state.TurnPlayerID),
                        SpanishCards, <<0, 1>>).g,
              NewActionDiscardCard(Head(state.DrawPile), state.TurnPlayerID),
              SpanishCards, <<0, 1>>).g

RECURSIVE playTurns(_, _)
playTurns(state, n) == IF n = 0 THEN state ELSE playTurns(playTurn(state), n - 1)

\* the two log entries of the k-th such turn, of a match whose draw pile was
\* pile when the round began: players 0 and 1 take turns, player 0 first
turnLog(pile, k) ==
    <<[PlayerID |-> (k - 1) % 2,
       Action |-> SerializeAction(NewActionDrawFromDeck((k - 1) % 2))],
      [PlayerID |-> (k - 1) % 2,
       Action |-> SerializeAction(NewActionDiscardCard(pile[k], (k - 1) % 2))]>>

\* the state playTurns(fresh, n) of a fresh match: the first n cards of the
\* draw pile lie on the discard pile, the hands are as dealt
afterTurns(fresh, n) ==
    storePossibleActions(
        [fresh EXCEPT
            !.DrawPile = SubSeq(@, n + 1, Len(@)),
            !.DiscardPile = @ \o SubSeq(fresh.DrawPile, 1, n),
            !.TurnPlayerID = n % 2,
            !.TurnOpponentPlayerID = 1 - (n % 2),
            !.RoundsLog[2].ActionsLog =
                [i \in 1..(2 * n) |-> turnLog(fresh.DrawPile, (i + 1) \div 2)[2 - (i % 2)]]])

\* the turns after which one card is left on the draw pile: the deck less the
\* two hands, the seed card and that card
LateTurns == Len(SpanishCards) - 2 * HandSize - 2

\* each turn played by playTurn leads from afterTurns(n - 1) to afterTurns(n)
afterTurnsIsPlayed(fresh) ==
    /\ afterTurns(fresh, 0) = fresh
    /\ \A n \in 1..LateTurns : playTurn(afterTurns(fresh, n - 1)) = afterTurns(fresh, n)

\* the match after LateTurns such turns, the last call being the last discard
InitLate ==
    /\ g = afterTurns(New(DefaultMaxPoints, ByNumberDeck, <<0, 1>>), LateTurns)
    /\ call = [op |-> "RunAction",
               action |-> NewActionDiscardCard(g.DiscardPile[Len(g.DiscardPile)],
                                               g.TurnOpponentPlayerID)]
    /\ err = noErr
    /\ calls = 0
    /\ closes = 0

\* a fresh match, or a match late in its first round
InitAny == Init \/ InitLate

SpecLate == InitAny /\ [][Next]_vars

\* ---------------------------------------------------- hand analysis alone
\* k cards of suit s in a row, from number a up
RunHand(s, a, k) == [i \in 1..k |-> Card(s, a + i - 1)]

\* hands close to a run of 6, 7 or 8 cards: the run itself and the run with
\* one card exchanged for any card it does not hold
RunHands ==
    {RunHand(s, a, k) : s \in {ORO, COPA}, a \in 1..(MaxNumber - 5), k \in 6..8}

NearRunHands ==
    {h \in RunHands : h[Len(h)].Number <= MaxNumber}
    \cup {[h EXCEPT ![i] = c] :
            h \in {r \in RunHands : r[Len(r)].Number <= MaxNumber},
            i \in 1..6,
            c \in AllCards}

\* hands of a run of r cards of ORO and the three other cards of number n
RunAndSetHands ==
    {RunHand(ORO, a, r) \o <<Card(COPA, n), Card(ESPADA, n), Card(BASTO, n)>> :
        a \in 1..(MaxNumber - 3), r \in 3..4, n \in 1..MaxNumber}

\* the hands of a run of 3 and a set with a seventh card: one that takes part
\* in nothing, or one that lengthens the run or completes the set of four
SeventhCards == {Card(BASTO, 1), Card(ESPADA, MaxNumber), Card(ORO, MaxNumber)}

RunSetAndSeventhHands ==
    {Append(h, c) : h \in {r \in RunAndSetHands : Len(r) = 6}, c \in SeventhCards}

\* a hand never holds a card twice: the deck has each card once
NoCardTwice(h) == \A i, j \in 1..Len(h) : i # j => h[i] # h[j]

\* the hands handed to the hand analysis
HandInputs ==
    {h \in NearRunHands \cup RunAndSetHands \cup RunSetAndSeventhHands : NoCardTwice(h)}

\* a hand, not yet analysed
InitHand ==
    /\ g = New(DefaultMaxPoints, SpanishCards, <<0, 1>>)
    /\ \E h \in HandInputs : call = [op |-> "Hand", hand |-> h]
    /\ err = noErr
    /\ calls = 0
    /\ closes = 0

\* a call of hand.IsChinchon()
IsChinchonCall ==
    /\ call.op = "Hand"
    /\ call' = [op |-> "IsChinchon", hand |-> call.hand, result |-> IsChinchon(call.hand)]
    /\ calls' = calls + 1
    /\ UNCHANGED <<g, err, closes>>

\* a call of hand.PenaltyPoints(hand.ValidGroups())
PenaltyPointsCall ==
    /\ call.op = "Hand"
    /\ call' = [op |-> "PenaltyPoints", hand |-> call.hand,
                result |-> PenaltyPoints(call.hand, ValidGroups(call.hand))]
    /\ calls' = calls + 1
    /\ UNCHANGED <<g, err, closes>>

\* a call of hand.ValidGroups()
ValidGroupsCall ==
    /\ call.op = "Hand"
    /\ call' = [op |-> "ValidGroups", hand |-> call.hand,
                result |-> ValidGroups(call.hand)]
    /\ calls' = calls + 1
    /\ UNCHANGED <<g, err, closes>>

NextHand == IsChinchonCall \/ PenaltyPointsCall \/ ValidGroupsCall

SpecHand == InitHand /\ [][NextHand]_vars

\* ---------------------------------------------------- serialization alone
\* player ids and cards carried by the actions that are serialized
WirePlayerIDs == {-1, 0, 1, 2, 7}

WireCards == AllCards \cup {Card("", 0), Card("bastos", -3)}

WireActions ==
    {NewActionDrawFromDeck(p) : p \in WirePlayerIDs}
    \cup {NewActionDrawFromDiscard(p) : p \in WirePlayerIDs}
    \cup {NewActionDiscardCard(c, p) : c \in WireCards, p \in WirePlayerIDs}
    \cup {NewActionClose(p) : p \in WirePlayerIDs}
    \cup {NewActionConfirmRoundFinished(p) : p \in WirePlayerIDs}

\* documents that no SerializeAction wrote: a foreign name, no name at all
ForeignDocuments ==
    {[name |-> n, playerID |-> p] : n \in {"", "pass", "Draw_From_Deck"}, p \in {0, 1}}
    \cup {[playerID |-> p] : p \in {0, 1}}
    \cup {[name |-> "shuffle", playerID |-> 0, card |-> SerializeCard(Card(ORO, 1))]}

\* an action to serialize, or a document received
InitWire ==
    /\ g = New(DefaultMaxPoints, SpanishCards, <<0, 1>>)
    /\ \/ \E a \in WireActions : call = [op |-> "Action", action |-> a]
       \/ \E d \in ForeignDocuments : call = [op |-> "Document", doc |-> d]
    /\ err = noErr
    /\ calls = 0
    /\ closes = 0

\* a call of SerializeAction(action)
SerializeActionCall ==
    /\ call.op = "Action"
    /\ call' = [op |-> "SerializeAction", action |-> call.action,
                doc |-> SerializeAction(call.action)]
    /\ err' = noErr
    /\ calls' = calls + 1
    /\ UNCHANGED <<g, closes>>

\* a call of DeserializeAction on a serialized action or on a foreign document
DeserializeActionCall ==
    /\ call.op \in {"SerializeAction", "Document"}
    /\ call' = [op |-> "DeserializeAction",
                sent |-> IF call.op = "SerializeAction" THEN call.action ELSE NilAction,
                doc |-> call.doc,
                action |-> DeserializeAction(call.doc).action]
    /\ err' = DeserializeAction(call.doc).err
    /\ calls' = calls + 1
    /\ UNCHANGED <<g, closes>>

NextWire == SerializeActionCall \/ DeserializeActionCall

SpecWire == InitWire /\ [][NextWire]_vars

\* ------------------------------------------------------------ properties
Hand(p) == g.Players[p].Hand

Score(p) == g.Players[p].Score

\* the round is in progress: neither finished nor the game ended
RoundActive == ~g.IsRoundFinished /\ ~g.IsGameEnded

\* the last call was RunAction with an action of one of the given names
RanAction(names) == call.op = "RunAction" /\ call.action.Name \in names

\* how often card c occurs in the four places a card can be
Occurrences(c) ==
    Cardinality({i \in 1..Len(g.DrawPile) : g.DrawPile[i] = c})
    + Cardinality({i \in 1..Len(g.DiscardPile) : g.DiscardPile[i] = c})
    + Cardinality({i \in 1..Len(Hand(0)) : Hand(0)[i] = c})
    + Cardinality({i \in 1..Len(Hand(1)) : Hand(1)[i] = c})

CardsInPlay == Len(g.DrawPile) + Len(g.DiscardPile) + Len(Hand(0)) + Len(Hand(1))

\* C1: in every reachable state the draw pile, the discard pile and the two
\* hands hold 40 cards together.
C1_CardConservation == CardsInPlay = 40

\* C2: in every reachable state, across round transitions too, each card of
\* the full deck is in exactly one of draw pile, discard pile, player 0's hand
\* and player 1's hand, and occurs there once.
C2_NoCardDuplicatedOrLost ==
    /\ \A c \in AllCards : Occurrences(c) = 1
    /\ CardsInPlay = Cardinality(AllCards)

\* a card has been drawn in the second round
C2_Witness == g.RoundNumber = 2 /\ g.HasDrawnCard /\ Len(Hand(g.TurnPlayerID)) = 8

\* C3: a freshly constructed match, whatever max-points option it is given,
\* is in round 1 with two players of 7 cards and score 0 each, one card on the
\* discard pile, the game not ended, the round not finished, no confirmation
\* recorded and the has-drawn flag false.
C3_FreshMatch ==
    call.op = "New" =>
        /\ g.RoundNumber = 1
        /\ DOMAIN g.Players = {0, 1}
        /\ \A p \in DOMAIN g.Players : Len(Hand(p)) = 7 /\ Score(p) = 0
        /\ Len(g.DiscardPile) = 1
        /\ ~g.IsGameEnded
        /\ ~g.IsRoundFinished
        /\ g.RoundFinishedConfirmedPlayerIDs = {}
        /\ ~g.HasDrawnCard

\* a match just constructed with a max-points option other than the default
C3_Witness == call.op = "New" /\ g.RuleMaxPoints = 0 /\ calls = 0


\* C4: RunAction checks in a fixed order, each check with its own failure: the
\* game ended gives GameEnded whatever the action; else an unfinished round
\* and an action of another player than the turn player gives NotYourTurn;
\* else an action that is not possible gives ActionNotPossible; else the call
\* succeeds.
C4_CheckOrder ==
    [][(call'.op = "RunAction" /\ call'.action # NilAction) =>
          /\ Cardinality({errGameIsEnded, errNotYourTurn, errActionNotPossible, noErr}) = 4
          /\ err' = IF g.IsGameEnded THEN errGameIsEnded
                    ELSE IF ~g.IsRoundFinished /\ call'.action.PlayerID # g.TurnPlayerID
                         THEN errNotYourTurn
                    ELSE IF ~IsPossible(call'.action, g) THEN errActionNotPossible
                    ELSE noErr]_vars

\* an action that fails all three checks was answered GameEnded
C4_Witness ==
    /\ call.op = "RunAction"
    /\ call.action # NilAction
    /\ err = errGameIsEnded
    /\ ~g.IsRoundFinished
    /\ call.action.PlayerID # g.TurnPlayerID
    /\ ~IsPossible(call.action, g)

\* C5: a RunAction call that returns an error leaves the whole game state as
\* it was: hands, piles, scores, turn ids, flags, confirmations, action log
\* and the stored legal-move set.
C5_FailureChangesNothing ==
    [][(call'.op = "RunAction" /\ err' # noErr) => g' = g]_vars

\* a discard was refused after the turn player had drawn
C5_Witness ==
    /\ RanAction({DISCARD_CARD})
    /\ err = errActionNotPossible
    /\ g.HasDrawnCard
    /\ Len(g.RoundsLog[g.RoundNumber + 1].ActionsLog) = 1

\* the call made in this step is a draw of the given kind by the turn player,
\* the round active and no card drawn yet this turn
DrawsNow(name) ==
    /\ call'.op = "RunAction"
    /\ call'.action.Name = name
    /\ RoundActive
    /\ ~g.HasDrawnCard
    /\ call'.action.PlayerID = g.TurnPlayerID

\* what a draw leaves alone: the turn, the opponent's hand, both scores
DrawKeeps ==
    /\ err' = noErr
    /\ Len(g'.Players[g.TurnPlayerID].Hand) = 8
    /\ g'.HasDrawnCard
    /\ g'.TurnPlayerID = g.TurnPlayerID
    /\ g'.TurnOpponentPlayerID = g.TurnOpponentPlayerID
    /\ g'.Players[g.TurnOpponentPlayerID] = g.Players[g.TurnOpponentPlayerID]
    /\ g'.Players[g.TurnPlayerID].Score = Score(g.TurnPlayerID)

DeckDrawn ==
    /\ DrawKeeps
    /\ g'.Players[g.TurnPlayerID].Hand = Append(Hand(g.TurnPlayerID), Head(g.DrawPile))
    /\ g'.DrawPile = Tail(g.DrawPile)
    /\ g'.DiscardPile = g.DiscardPile

DiscardDrawn ==
    /\ DrawKeeps
    /\ g'.Players[g.TurnPlayerID].Hand =
          Append(Hand(g.TurnPlayerID), g.DiscardPile[Len(g.DiscardPile)])
    /\ g'.DiscardPile = SubSeq(g.DiscardPile, 1, Len(g.DiscardPile) - 1)
    /\ g'.DrawPile = g.DrawPile

\* the call made in this step is a draw by the player whose draw the last
\* call applied
DrawsAgain ==
    /\ RanAction({DRAW_FROM_DECK, DRAW_FROM_DISCARD})
    /\ err = noErr
    /\ call'.op = "RunAction"
    /\ call'.action.Name \in {DRAW_FROM_DECK, DRAW_FROM_DISCARD}
    /\ call'.action.PlayerID = call.action.PlayerID

BelowMaxPoints == \A p \in PlayerIDs : Score(p) < g.RuleMaxPoints

\* C6 as claimed: in an active round whose turn player has not drawn, a draw
\* by the turn player from a non-empty draw pile (discard pile) succeeds,
\* moves the front card of the draw pile (the top card of the discard pile)
\* into that hand, now of 8 cards, sets the has-drawn flag and leaves the
\* turn, the other pile, the opponent's hand and the scores alone; a second
\* draw in the same turn fails with ActionNotPossible.
C6_DrawKeepsTurn_Original ==
    [][/\ (DrawsNow(DRAW_FROM_DECK) /\ Len(g.DrawPile) > 0) => DeckDrawn
       /\ (DrawsNow(DRAW_FROM_DISCARD) /\ Len(g.DiscardPile) > 0) => DiscardDrawn
       /\ DrawsAgain => err' = errActionNotPossible]_vars

\* C6 amended: the same, provided no player's score has reached the
\* max-points value when the draw is made (a successful RunAction then ends
\* the game, hands the turn over and clears the has-drawn flag, and a further
\* draw fails with GameEnded).
C6_DrawKeepsTurn ==
    [][/\ (DrawsNow(DRAW_FROM_DECK) /\ Len(g.DrawPile) > 0 /\ BelowMaxPoints) => DeckDrawn
       /\ (DrawsNow(DRAW_FROM_DISCARD) /\ Len(g.DiscardPile) > 0 /\ BelowMaxPoints)
             => DiscardDrawn
       /\ (DrawsAgain /\ BelowMaxPoints) => err' = errActionNotPossible]_vars

\* a second draw was refused right after a draw from the discard pile
C6_Witness ==
    /\ RanAction({DRAW_FROM_DECK, DRAW_FROM_DISCARD})
    /\ err = errActionNotPossible
    /\ g.HasDrawnCard
    /\ RoundActive
    /\ Len(Hand(g.TurnPlayerID)) = 8
    /\ Len(g.DiscardPile) = 0
    /\ call.action.PlayerID = g.TurnPlayerID


\* the call made in this step is a discard by the turn player of an active round
DiscardsNow ==
    /\ call'.op = "RunAction"
    /\ call'.action.Name = DISCARD_CARD
    /\ RoundActive
    /\ call'.action.PlayerID = g.TurnPlayerID

C8_HandSizes_Original ==
    /\ Len(Hand(g.TurnOpponentPlayerID)) = 7
    /\ Len(Hand(g.TurnPlayerID)) = IF g.HasDrawnCard THEN 8 ELSE 7

\* C8 amended: the same in every such state in which the game has not ended
\* (a draw that ends the game on points hands the turn over and clears the
\* flag while the drawer keeps 8 cards).
C8_HandSizes == ~g.IsGameEnded => C8_HandSizes_Original

\* the second player to act holds 8 cards after drawing
C8_Witness ==
    /\ ~g.IsGameEnded
    /\ g.HasDrawnCard
    /\ g.TurnPlayerID = 1
    /\ Len(Hand(1)) = 8
    /\ Len(Hand(0)) = 7

\* the call made in this step closes the round with closing id c
ClosesNow(c) ==
    \/ call'.op = "CloseRound" /\ call'.closingPlayerID = c
    \/ /\ call'.op = "RunAction"
       /\ call'.action.Name = CLOSE_ROUND
       /\ err' = noErr
       /\ call'.action.PlayerID = c

SomeChinchon == \E p \in PlayerIDs : IsChinchon(Hand(p))

\* C9: when a round is closed while a player's hand is a Chinchon, the game
\* ends in that call: IsGameEnded is true, the winner is a holder of a
\* Chinchon, the loser is the other player and no score changes.
C9_ChinchonEndsGame ==
    [][(SomeChinchon /\ \E c \in ClosingPlayerIDs : ClosesNow(c)) =>
          /\ g'.IsGameEnded
          /\ g'.WinnerPlayerID \in PlayerIDs
          /\ IsChinchon(Hand(g'.WinnerPlayerID))
          /\ g'.LoserPlayerID \in PlayerIDs \ {g'.WinnerPlayerID}
          /\ \A p \in PlayerIDs : g'.Players[p].Score = Score(p)]_vars

\* player 1 closed the round while player 0 held a Chinchon
C9_Witness ==
    /\ call.op = "CloseRound"
    /\ call.closingPlayerID = 1
    /\ IsChinchon(Hand(0))
    /\ ~IsChinchon(Hand(1))
    /\ g.IsGameEnded
    /\ g.WinnerPlayerID = 0

Penalty(p) == PenaltyPoints(Hand(p), ValidGroups(Hand(p)))

\* C10 as claimed: whenever a round is closed, no Chinchon involved, by a
\* player whose own penalty is zero, the opponent's score grows by the
\* opponent's penalty plus 10 and the closer's score is unchanged, whatever
\* the opponent's hand.
C10_ZeroPenaltyCloser_Original ==
    [][\A c \in PlayerIDs :
          (ClosesNow(c) /\ ~SomeChinchon /\ Penalty(c) = 0) =>
              /\ g'.Players[1 - c].Score = Score(1 - c) + Penalty(1 - c) + 10
              /\ g'.Players[c].Score = Score(c)]_vars

\* C10 amended: the same, for every opponent hand whose penalty is above zero
\* (when both penalties are zero the round is a tie and no bonus is added).
C10_ZeroPenaltyCloser ==
    [][\A c \in PlayerIDs :
          (ClosesNow(c) /\ ~SomeChinchon /\ Penalty(c) = 0 /\ Penalty(1 - c) > 0) =>
              /\ g'.Players[1 - c].Score = Score(1 - c) + Penalty(1 - c) + 10
              /\ g'.Players[c].Score = Score(c)]_vars

\* player 0 closed with penalty 0 against a penalty of 10: the opponent has 20
C10_Witness ==
    /\ call.op = "CloseRound"
    /\ call.closingPlayerID = 0
    /\ ~SomeChinchon
    /\ Penalty(0) = 0
    /\ Penalty(1) = 10
    /\ Score(1) = 20
    /\ Score(0) = 0


\* the closer c does not have the strictly lower penalty: nobody closed, the
\* penalties tie, or the closer's penalty is the higher one
CloserNotLower(c) == IF c = -1 THEN TRUE ELSE Penalty(c) >= Penalty(1 - c)

CloserLower(c) == IF c = -1 THEN FALSE ELSE Penalty(c) < Penalty(1 - c)

C13_ScoresNeverDecrease ==
    [][\A p \in PlayerIDs : g'.Players[p].Score >= Score(p)]_vars

\* a score earned in round 1 is still there in round 2
C13_Witness ==
    /\ g.RoundNumber = 2
    /\ Score(1) = 10
    /\ Score(0) = 0
    /\ RanAction({CONFIRM_ROUND_FINISHED})


\* the last call was a RunAction that ran its action
RanSuccessfully == call.op = "RunAction" /\ call.action # NilAction /\ err = noErr

\* C14: max-points rule. In a match created with a max-points value of at
\* least 1, in every state that follows a successful RunAction, if a player's
\* score has reached the max-points value then the game has ended, the
\* recorded loser is a player whose score has reached it and the recorded
\* winner is the other player.
C14_MaxPointsRule ==
    (/\ g.RuleMaxPoints >= 1
     /\ RanSuccessfully
     /\ \E p \in PlayerIDs : Score(p) >= g.RuleMaxPoints) =>
        /\ g.IsGameEnded
        /\ g.LoserPlayerID \in PlayerIDs
        /\ Score(g.LoserPlayerID) >= g.RuleMaxPoints
        /\ g.WinnerPlayerID = 1 - g.LoserPlayerID

\* the first confirmation after a closing ended the game on points, only
\* player 1 having reached the maximum
C14_Witness ==
    /\ g.RuleMaxPoints >= 1
    /\ RanSuccessfully
    /\ call.action.Name = CONFIRM_ROUND_FINISHED
    /\ Score(1) >= g.RuleMaxPoints
    /\ Score(0) < g.RuleMaxPoints
    /\ g.IsGameEnded
    /\ g.LoserPlayerID = 1
    /\ g.WinnerPlayerID = 0


\* C15: game over is terminal. Once IsGameEnded is true it stays true; every
\* later RunAction with a non-nil action fails with GameEnded; winner id,
\* loser id, scores, hands, piles, round number and the stored legal-move set
\* do not change again; no action is legal for either player, and the
\* legal-move set stored by the RunAction call that ended the game is empty.
C15_GameOverIsTerminal ==
    [][/\ g.IsGameEnded =>
             /\ g'.IsGameEnded
             /\ (call'.op = "RunAction" /\ call'.action # NilAction) => err' = errGameIsEnded
             /\ g'.WinnerPlayerID = g.WinnerPlayerID
             /\ g'.LoserPlayerID = g.LoserPlayerID
             /\ g'.Players = g.Players
             /\ g'.DrawPile = g.DrawPile
             /\ g'.DiscardPile = g.DiscardPile
             /\ g'.RoundNumber = g.RoundNumber
             /\ g'.PossibleActions = g.PossibleActions
             /\ CalculatePossibleActions(g') = <<>>
       /\ (~g.IsGameEnded /\ g'.IsGameEnded /\ call'.op = "RunAction") =>
             g'.PossibleActions = <<>>]_vars

\* after the game ended on points, a confirmation of the finished round was
\* refused with GameEnded
C15_Witness ==
    /\ g.IsGameEnded
    /\ g.RuleMaxPoints >= 1
    /\ g.IsRoundFinished
    /\ RanAction({CONFIRM_ROUND_FINISHED})
    /\ err = errGameIsEnded
    /\ call.action.PlayerID \notin g.RoundFinishedConfirmedPlayerIDs
    /\ g.PossibleActions = <<>>


\* C16: a finished round is replaced by a new round only in a RunAction call
\* after which player 0 and player 1 have both confirmed the finished round,
\* whatever player ids the submitted actions carry.
C16_NewRoundNeedsBothPlayers ==
    [][g'.RoundNumber # g.RoundNumber =>
          /\ call'.op = "RunAction"
          /\ call'.action.Name = CONFIRM_ROUND_FINISHED
          /\ g.IsRoundFinished
          /\ PlayerIDs \subseteq (g.RoundFinishedConfirmedPlayerIDs \cup {call'.action.PlayerID})]_vars


\* C17: the engine is deterministic: from the same game state, the same
\* submitted action and the same shuffle, RunAction produces the same state
\* and result, and so does a round closing, whatever order the iteration over
\* the players takes; this includes the winner and loser ids recorded when
\* both scores have reached the max-points value in the same call.
C17_Deterministic ==
    /\ \A action \in Inputs \ {NilAction} :
          checkAction(g, action) = noErr =>
              \A cards \in ShufflesFor(action), order \in Orders :
                  RunAction(g, action, cards, order) = RunAction(g, action, cards, <<0, 1>>)
    /\ RoundActive =>
          \A closingPlayerID \in ClosingPlayerIDs, order \in Orders :
              CloseRound(g, closingPlayerID, order) = CloseRound(g, closingPlayerID, <<0, 1>>)


\* g with player p's hand exchanged with the front of the draw pile
SwapHandAndPile(p) ==
    [g EXCEPT !.Players[p].Hand = SubSeq(g.DrawPile, 1, Len(Hand(p))),
              !.DrawPile = Hand(p) \o SubSeq(g.DrawPile, Len(Hand(p)) + 1, Len(g.DrawPile))]

Reverse(s) == [i \in 1..Len(s) |-> s[Len(s) + 1 - i]]

\* g with the draw pile reversed and player p's hand reversed
ReverseHidden(p) ==
    [g EXCEPT !.Players[p].Hand = Reverse(@), !.DrawPile = Reverse(@)]

\* g with the cards below the top of the discard pile exchanged with the front
\* of the draw pile
SwapBuried ==
    [g EXCEPT !.DiscardPile = SubSeq(g.DrawPile, 1, Len(@) - 1) \o <<@[Len(@)]>>,
              !.DrawPile = SubSeq(g.DiscardPile, 1, Len(g.DiscardPile) - 1)
                           \o SubSeq(@, Len(g.DiscardPile), Len(@))]

\* states that differ from g only in what a viewer must not see: the cards
\* player p holds, the cards of the draw pile and the cards below the top of
\* the discard pile, all sizes equal
HiddenVariants(p) ==
    {ReverseHidden(p)}
    \cup (IF Len(g.DrawPile) >= Len(Hand(p)) THEN {SwapHandAndPile(p)} ELSE {})
    \cup (IF Len(g.DiscardPile) >= 2 /\ Len(g.DrawPile) >= Len(g.DiscardPile)
          THEN {SwapBuried} ELSE {})

\* C18: the client projection leaks no hidden information: two game states
\* that differ only in the cards the opponent holds, the cards of the draw
\* pile and the cards below the top of the discard pile (sizes equal) have
\* the same ToClientGameState(viewer).
C18_NoHiddenInformation ==
    \A viewer \in PlayerIDs, order \in Orders :
        \A h \in HiddenVariants(1 - viewer) :
            ToClientGameState(h, viewer, order) = ToClientGameState(g, viewer, order)

\* the opponent of viewer 0 is to discard one of 8 cards, two cards lie on the
\* discard pile, and a state with other hidden cards exists
C18_Witness ==
    /\ RoundActive
    /\ g.TurnPlayerID = 1
    /\ g.HasDrawnCard
    /\ Len(g.DiscardPile) = 2
    /\ Cardinality(HiddenVariants(1) \ {g}) = 3
    /\ ToClientGameState(g, 0, <<0, 1>>).TheirHandSize = 8

\* C19: the legal actions in ToClientGameState(viewer) are exactly the
\* members of the current legal-move set whose player id is the viewer: no
\* action of the other player is included, and while a round is active the
\* player who is not to act gets an empty list.
C19_OwnActionsOnly ==
    \A viewer \in PlayerIDs, order \in Orders :
        /\ \A i \in 1..Len(ToClientGameState(g, viewer, order).PossibleActions) :
              ToClientGameState(g, viewer, order).PossibleActions[i].playerID = viewer
        /\ {ToClientGameState(g, viewer, order).PossibleActions[i] :
                i \in 1..Len(ToClientGameState(g, viewer, order).PossibleActions)}
           = {SerializeAction(CalculatePossibleActions(g)[i]) :
                i \in {j \in 1..Len(CalculatePossibleActions(g)) :
                          CalculatePossibleActions(g)[j].PlayerID = viewer}}
        /\ Len(ToClientGameState(g, viewer, order).PossibleActions)
           = countActionsOf(CalculatePossibleActions(g), viewer)
        /\ (RoundActive /\ viewer # g.TurnPlayerID) =>
              ToClientGameState(g, viewer, order).PossibleActions = <<>>

\* a round has just been closed: the legal-move set holds a confirmation for
\* each player, and each player is shown their own only
C19_Witness ==
    /\ g.IsRoundFinished
    /\ ~g.IsGameEnded
    /\ g.RoundFinishedConfirmedPlayerIDs = {}
    /\ Len(CalculatePossibleActions(g)) = 2
    /\ Len(ToClientGameState(g, 0, <<0, 1>>).PossibleActions) = 1
    /\ Len(ToClientGameState(g, 1, <<0, 1>>).PossibleActions) = 1


\* every action variant, carrying a player's or another id; the cards are a
\* card of the turn player's hand and one that player does not hold
AnyIDInputs ==
    {NewActionDrawFromDeck(p) : p \in ViewerIDs}
    \cup {NewActionDrawFromDiscard(p) : p \in ViewerIDs}
    \cup {NewActionDiscardCard(c, p) : c \in DiscardCandidates, p \in ViewerIDs}
    \cup {NewActionClose(p) : p \in ViewerIDs}
    \cup {NewActionConfirmRoundFinished(p) : p \in ViewerIDs}

\* RunAction completes with success or one of its three errors, whatever the
\* action and the id it carries
RunActionCompletes ==
    \A action \in AnyIDInputs, order \in Orders :
        RunAction(g, action, SpanishCards, order).err
            \in {noErr, errGameIsEnded, errNotYourTurn, errActionNotPossible}

\* C20: the engine never panics on bad input: in every reachable state
\* RunAction with any action variant, player id and card returns success or
\* one of GameEnded / NotYourTurn / ActionNotPossible, and ToClientGameState
\* with any viewer id completes normally.
C20_NeverPanics ==
    /\ RunActionCompletes
    /\ \A viewer \in ViewerIDs, order \in Orders :
          ToClientGameState(g, viewer, order) # Panic


\* C21 as claimed: the discard pile is non-empty in every state reachable
\* from New() by RunAction calls.
C21_DiscardPileNonEmpty_Original == Len(g.DiscardPile) > 0

\* C21 amended: the discard pile is non-empty in every such state in which
\* the game has not ended and the turn player has not drawn; a draw from the
\* discard pile may take its only card, and the pile stays empty until that
\* player discards.
C21_DiscardPileNonEmpty ==
    (~g.IsGameEnded /\ ~g.HasDrawnCard) => Len(g.DiscardPile) > 0

\* the seed card was drawn from the discard pile and a card discarded after it
C21_Witness ==
    /\ RanAction({DISCARD_CARD})
    /\ err = noErr
    /\ ~g.IsGameEnded
    /\ ~g.HasDrawnCard
    /\ Len(g.DiscardPile) = 1
    /\ g.RoundsLog[g.RoundNumber + 1].ActionsLog[1].Action.name = DRAW_FROM_DISCARD


\* C22: the has-drawn flag is true only between a successful draw and the
\* following discard or close of the same turn: it becomes true only by a
\* successful draw, it is false right after a discard, right after a round
\* closing, right after any change of turn player and right after a new round
\* starts, and it is never true while the round is finished.
C22_HasDrawnOnlyWithinTurn ==
    [][/\ (g'.HasDrawnCard /\ ~g.HasDrawnCard) =>
             /\ call'.op = "RunAction"
             /\ call'.action.Name \in {DRAW_FROM_DECK, DRAW_FROM_DISCARD}
             /\ err' = noErr
       /\ (call'.op = "RunAction" /\ call'.action.Name = DISCARD_CARD /\ err' = noErr) =>
             ~g'.HasDrawnCard
       /\ (\E c \in ClosingPlayerIDs : ClosesNow(c)) => ~g'.HasDrawnCard
       /\ g'.TurnPlayerID # g.TurnPlayerID => ~g'.HasDrawnCard
       /\ g'.RoundNumber # g.RoundNumber => ~g'.HasDrawnCard
       /\ g'.IsRoundFinished => ~g'.HasDrawnCard]_vars


\* the cards of player p's hand that no group of the grouping algorithm covers
Uncovered(p) ==
    {i \in 1..Len(Hand(p)) :
        ~\E grp \in ValidGroups(Hand(p)) : \E k \in 1..Len(grp) : grp[k] = Hand(p)[i]}

\* player p holds exactly 7 cards and at most one of them is in no group
HoldsClosableHand(p) == Len(Hand(p)) = 7 /\ Cardinality(Uncovered(p)) <= 1

\* C23 as claimed: in every game state CanClose(player) is true if and only
\* if the player holds exactly 7 cards and at most one of them is covered by
\* no group of the grouping algorithm.
C23_CanClose_Original ==
    \A p \in PlayerIDs : CanClose(g, p) <=> HoldsClosableHand(p)

\* C23 amended: the same in every game state whose round is not finished; in
\* a finished round CanClose is false whatever the hand.
C23_CanClose ==
    \A p \in PlayerIDs :
        CanClose(g, p) <=> (~g.IsRoundFinished /\ HoldsClosableHand(p))

\* player 0 holds 7 cards of which exactly one is in no group and can close,
\* player 1 holds 7 cards of which three are in no group and cannot
C23_Witness ==
    /\ ~g.IsRoundFinished
    /\ Len(Hand(0)) = 7
    /\ Cardinality(Uncovered(0)) = 1
    /\ CanClose(g, 0)
    /\ Len(Hand(1)) = 7
    /\ Cardinality(Uncovered(1)) = 3
    /\ ~CanClose(g, 1)


\* the numbers of hand h are 7 values in a row
SevenInARow(h) ==
    \E a \in 1..MaxNumber : {h[i].Number : i \in 1..Len(h)} = a..(a + 6)

\* C24: IsChinchon(hand) is true if and only if the hand has exactly 7 cards,
\* all of one suit, whose numbers are 7 consecutive values; it is false for a
\* hand of another size, with two suits, or with a gap in the numbers.
C24_IsChinchon ==
    call.op = "IsChinchon" =>
        (call.result <=>
            /\ Len(call.hand) = 7
            /\ \A i \in 1..Len(call.hand) : call.hand[i].Suit = call.hand[1].Suit
            /\ SevenInARow(call.hand))

\* a Chinchon whose cards are not held in ascending order was recognised
C24_Witness ==
    /\ call.op = "IsChinchon"
    /\ call.result
    /\ call.hand[1].Number > call.hand[2].Number

\* the cards of hand h that belong to no group of ValidGroups(h)
InNoGroup(h) ==
    {c \in {h[i] : i \in 1..Len(h)} :
        \A grp \in ValidGroups(h) : \A k \in 1..Len(grp) : grp[k] # c}

\* the cards of hand h that belong to two groups or more
InSeveralGroups(h) ==
    {c \in {h[i] : i \in 1..Len(h)} :
        Cardinality({grp \in ValidGroups(h) : \E k \in 1..Len(grp) : grp[k] = c}) >= 2}

\* the sum of the values the claim gives the cards of S: the number up to 9,
\* 10 for 10, 11 and 12
RECURSIVE SumOfValues(_)
SumOfValues(S) ==
    IF S = {} THEN 0
    ELSE (IF (CHOOSE c \in S : TRUE).Number <= 9
          THEN (CHOOSE c \in S : TRUE).Number ELSE 10)
         + SumOfValues(S \ {CHOOSE c \in S : TRUE})

\* C25: the penalty value of a card is its number for numbers 1 to 9 and 10
\* for 10, 11 and 12; PenaltyPoints of a hand is the sum of the penalty values
\* of exactly the cards that belong to no returned group, a card claimed by
\* several groups counting zero.
C25_PenaltyPoints ==
    /\ \A c \in AllCards :
          /\ c.Number \in 1..9 => PenaltyValue(c) = c.Number
          /\ c.Number \in 10..12 => PenaltyValue(c) = 10
    /\ call.op = "PenaltyPoints" => call.result = SumOfValues(InNoGroup(call.hand))

\* a hand with a card in a run and in a set, and a 10, 11 or 12 in no group
C25_Witness ==
    /\ call.op = "PenaltyPoints"
    /\ InSeveralGroups(call.hand) # {}
    /\ \E c \in InNoGroup(call.hand) : c.Number >= 10
    /\ call.result >= 10


\* C26: serialization round trip. For every action variant, player id and
\* card, DeserializeAction(SerializeAction(a)) succeeds and yields an action
\* of the same variant with the same name, player id and, for a discard, the
\* same card; a document whose name is none of the five action names fails
\* with an error and yields no action.
C26_RoundTrip ==
    call.op = "DeserializeAction" =>
        /\ call.sent # NilAction =>
              /\ err = noErr
              /\ call.action.Name = call.sent.Name
              /\ call.action.PlayerID = call.sent.PlayerID
              /\ DOMAIN call.action = DOMAIN call.sent
              /\ call.sent.Name = DISCARD_CARD => call.action.Card = call.sent.Card
        /\ jsonField(call.doc, "name", "") \notin ActionNames =>
              /\ err # noErr
              /\ call.action = NilAction

\* a discard of a card by player 1 came back from its serialized form
C26_Witness ==
    /\ call.op = "DeserializeAction"
    /\ call.sent = NewActionDiscardCard(Card(COPA, 11), 1)
    /\ call.action = call.sent
    /\ call.doc.card.number = 11
    /\ err = noErr


\* the stored legal-move set, as a set
Stored == {g.PossibleActions[i] : i \in 1..Len(g.PossibleActions)}

\* the state was left by New() or by a RunAction call that ran its action
JustStored == IF call.op = "New" THEN TRUE ELSE RanSuccessfully

\* the legal moves the phase of the game calls for
DrawMoves ==
    (IF Len(g.DrawPile) > 0
     THEN {SerializeAction(NewActionDrawFromDeck(g.TurnPlayerID))} ELSE {})
    \cup (IF Len(g.DiscardPile) > 0
          THEN {SerializeAction(NewActionDrawFromDiscard(g.TurnPlayerID))} ELSE {})

DiscardMoves ==
    {SerializeAction(NewActionDiscardCard(Hand(g.TurnPlayerID)[i], g.TurnPlayerID)) :
        i \in 1..Len(Hand(g.TurnPlayerID))}
    \cup (IF CanClose(g, g.TurnPlayerID)
          THEN {SerializeAction(NewActionClose(g.TurnPlayerID))} ELSE {})

ConfirmMoves ==
    {SerializeAction(NewActionConfirmRoundFinished(p)) :
        p \in PlayerIDs \ g.RoundFinishedConfirmedPlayerIDs}

PhaseMoves ==
    IF g.IsGameEnded THEN {}
    ELSE IF g.IsRoundFinished THEN ConfirmMoves
    ELSE IF g.HasDrawnCard THEN DiscardMoves
    ELSE DrawMoves

\* C27: the legal-move set stored after New() and after every successful
\* RunAction is determined by the phase: the turn player's DrawFromDeck (iff
\* the draw pile is non-empty) and DrawFromDiscard (iff the discard pile is
\* non-empty) before drawing; one DiscardCard per card of the turn player's
\* hand, plus Close iff CanClose, after drawing; one ConfirmRoundFinished for
\* each player who has not confirmed while a finished round awaits
\* confirmation; nothing once the game has ended. The priority sweep removes
\* nothing.
C27_MovesByPhase ==
    JustStored =>
        /\ Stored = PhaseMoves
        /\ Len(g.PossibleActions) = Cardinality(PhaseMoves)
        /\ CalculatePossibleActions(g)
           = SelectSeq(allActions(g), LAMBDA a : IsPossible(a, g))

\* the draw pile is exhausted in an active round: the turn player's only
\* legal move is to draw from the discard pile
C27_Witness ==
    /\ RanSuccessfully
    /\ RoundActive
    /\ ~g.HasDrawnCard
    /\ Len(g.DrawPile) = 0
    /\ g.PossibleActions = <<SerializeAction(NewActionDrawFromDiscard(g.TurnPlayerID))>>


\* the actions a player can submit: every variant, every card of the deck
PlayerActions ==
    {NewActionDrawFromDeck(p) : p \in PlayerIDs}
    \cup {NewActionDrawFromDiscard(p) : p \in PlayerIDs}
    \cup {NewActionDiscardCard(c, p) : c \in AllCards, p \in PlayerIDs}
    \cup {NewActionClose(p) : p \in PlayerIDs}
    \cup {NewActionConfirmRoundFinished(p) : p \in PlayerIDs}

\* C28: the stored legal-move set is sound and complete with respect to
\* RunAction: in every state left by New() or by a RunAction call that ran
\* its action, RunAction accepts an action of player 0 or 1 if and only if an
\* equal action (variant, player id, card) is in the stored set.
C28_StoredMovesAreTheAcceptedOnes ==
    JustStored =>
        \A a \in PlayerActions :
            (checkAction(g, a) = noErr) <=> (SerializeAction(a) \in Stored)

\* one confirmation is recorded: the other player's confirmation is the only
\* stored move and the only action accepted
C28_Witness ==
    /\ RanSuccessfully
    /\ g.IsRoundFinished
    /\ ~g.IsGameEnded
    /\ g.RoundFinishedConfirmedPlayerIDs = {0}
    /\ Stored = {SerializeAction(NewActionConfirmRoundFinished(1))}
    /\ checkAction(g, NewActionConfirmRoundFinished(1)) = noErr
    /\ checkAction(g, NewActionConfirmRoundFinished(0)) = errActionNotPossible


\* C29: no stuck player. In every reachable state in which the game has not
\* ended, the turn player has at least one action that RunAction accepts;
\* also with the draw pile exhausted in mid-round, and while a finished round
\* awaits the second confirmation, where the turn is with the player who has
\* not confirmed.
C29_NoStuckPlayer ==
    ~g.IsGameEnded =>
        /\ \E a \in PlayerActions :
              a.PlayerID = g.TurnPlayerID /\ checkAction(g, a) = noErr
        /\ (g.IsRoundFinished /\ Cardinality(g.RoundFinishedConfirmedPlayerIDs) = 1) =>
              g.TurnPlayerID \notin g.RoundFinishedConfirmedPlayerIDs

\* the last card of the draw pile has been drawn and a card discarded: the
\* next player, in an active round, finds no card to draw from the pile
C29_Witness ==
    /\ RanAction({DISCARD_CARD})
    /\ err = noErr
    /\ RoundActive
    /\ Len(g.DrawPile) = 0
    /\ Len(g.RoundsLog[g.RoundNumber + 1].ActionsLog) = 2 * LateTurns + 2
    /\ checkAction(g, NewActionDrawFromDeck(g.TurnPlayerID)) = errActionNotPossible
    /\ checkAction(g, NewActionDrawFromDiscard(g.TurnPlayerID)) = noErr


\* the cards of a sequence, as a set
CardsOf(s) == {s[i] : i \in 1..Len(s)}

\* the state holds one full deck: every card of the deck exactly once, over the
\* two hands, the discard pile and the draw pile
HoldsFullDeck(state) ==
    /\ Len(state.Players[0].Hand) + Len(state.Players[1].Hand)
          + Len(state.DiscardPile) + Len(state.DrawPile) = Cardinality(AllCards)
    /\ CardsOf(state.Players[0].Hand) \cup CardsOf(state.Players[1].Hand)
          \cup CardsOf(state.DiscardPile) \cup CardsOf(state.DrawPile) = AllCards

\* C30: when a confirmation starts a new round, the round number has grown by
\* exactly 1, a full deck has been dealt again with 7 cards in each hand and 1
\* card on the discard pile, the round-finished flag is false, no confirmation
\* is recorded, the closing-player id is -1, the has-drawn flag is false, one
\* new round log without actions has been appended (so there are round number
\* plus 1 round logs), and both scores are what they were before the call.
C30_NewRoundFrame ==
    [][g'.RoundNumber # g.RoundNumber =>
        /\ g'.RoundNumber = g.RoundNumber + 1
        /\ HoldsFullDeck(g')
        /\ \A p \in PlayerIDs : Len(g'.Players[p].Hand) = HandSize
        /\ Len(g'.DiscardPile) = 1
        /\ ~g'.IsRoundFinished
        /\ g'.RoundFinishedConfirmedPlayerIDs = {}
        /\ g'.CurrentRoundClosedByPlayerID = -1
        /\ ~g'.HasDrawnCard
        /\ Len(g'.RoundsLog) = Len(g.RoundsLog) + 1
        /\ Len(g'.RoundsLog) = g'.RoundNumber + 1
        /\ g'.RoundsLog[Len(g'.RoundsLog)] =
              NewRoundLog([p \in PlayerIDs |-> g'.Players[p].Hand])
        /\ g'.RoundsLog[Len(g'.RoundsLog)].ActionsLog = <<>>
        /\ \A p \in PlayerIDs : g'.Players[p].Score = g.Players[p].Score]_vars

\* the second round has just been started by a confirmation, with points on
\* the score sheet from the first
C30_Witness ==
    /\ RanAction({CONFIRM_ROUND_FINISHED})
    /\ err = noErr
    /\ g.RoundNumber = 2
    /\ g.RoundsLog[3].ActionsLog = <<>>
    /\ \E p \in PlayerIDs : g.Players[p].Score > 0
    /\ g.RoundsLog[2].ClosedByPlayerID \in PlayerIDs


\* the player who acted first in the current round, when the state tells: in
\* round 1 the player startNewRound gives the turn to, in a later round the
\* player of the first entry of the round's action log; -1 when no action of
\* the round has been logged
FirstToAct(state) ==
    IF state.RoundNumber = 1 THEN 0
    ELSE IF Len(state.RoundsLog[state.RoundNumber + 1].ActionsLog) > 0
         THEN state.RoundsLog[state.RoundNumber + 1].ActionsLog[1].PlayerID
         ELSE -1

\* C31: the starting player alternates each round. Player 0 acts first in
\* round 1, and the player who acts first in round n+1 is the opponent of the
\* player who acted first in round n, whichever of the two players confirmed
\* the finished round first.
C31_StartingPlayerAlternates ==
    [][/\ (/\ g.RoundNumber = 1
           /\ g.RoundsLog[2].ActionsLog = <<>>
           /\ g'.RoundsLog[2].ActionsLog # <<>>) =>
              g'.RoundsLog[2].ActionsLog[1].PlayerID = 0
       /\ (g'.RoundNumber # g.RoundNumber /\ FirstToAct(g) \in PlayerIDs) =>
              g'.TurnPlayerID = 1 - FirstToAct(g)]_vars


\* the action log of the current round
CurrentActionsLog(state) == state.RoundsLog[state.RoundNumber + 1].ActionsLog

\* this step is a RunAction call that ran an action of one of the given names
RunsNow(names) ==
    /\ call'.op = "RunAction"
    /\ call'.action.Name \in names
    /\ err' = noErr

\* this step is a RunAction call that returned an error
FailsNow == call'.op = "RunAction" /\ err' # noErr

\* C32: action log. Every successful RunAction of a draw, discard or close
\* appends exactly one entry to the current round's action log, whose player id
\* is the acting player's id and the turn player before any turn switch; a
\* successful confirmation and every failed RunAction append nothing; the logs
\* of earlier rounds are never modified; and right after a new round starts the
\* current round's log is empty, so that the client projection carries no
\* last-action entry.
C32_ActionLog ==
    [][/\ RunsNow({DRAW_FROM_DECK, DRAW_FROM_DISCARD, DISCARD_CARD, CLOSE_ROUND}) =>
             /\ g'.RoundNumber = g.RoundNumber
             /\ call'.action.PlayerID = g.TurnPlayerID
             /\ CurrentActionsLog(g') =
                   Append(CurrentActionsLog(g),
                          [PlayerID |-> call'.action.PlayerID,
                           Action |-> SerializeAction(call'.action)])
       /\ RunsNow({CONFIRM_ROUND_FINISHED}) =>
             \A n \in 1..Len(g.RoundsLog) :
                 g'.RoundsLog[n].ActionsLog = g.RoundsLog[n].ActionsLog
       /\ FailsNow => g'.RoundsLog = g.RoundsLog
       /\ Len(g'.RoundsLog) >= Len(g.RoundsLog)
       /\ \A n \in 1..g.RoundNumber : g'.RoundsLog[n] = g.RoundsLog[n]
       /\ g'.RoundNumber # g.RoundNumber =>
             /\ g'.RoundsLog[g.RoundNumber + 1] = g.RoundsLog[g.RoundNumber + 1]
             /\ CurrentActionsLog(g') = <<>>
             /\ \A youPlayerID \in PlayerIDs, order \in Orders :
                   ToClientGameState(g', youPlayerID, order).LastActionLog = <<>>]_vars

\* a discard has been logged as the second action of the round under the
\* player who discarded, and the turn has passed to the other player
C32_Witness ==
    /\ RanAction({DISCARD_CARD})
    /\ err = noErr
    /\ Len(CurrentActionsLog(g)) = 2
    /\ CurrentActionsLog(g)[2] =
          [PlayerID |-> call.action.PlayerID, Action |-> SerializeAction(call.action)]
    /\ g.TurnPlayerID # call.action.PlayerID
    /\ ToClientGameState(g, 0, <<0, 1>>).LastActionLog = <<CurrentActionsLog(g)[2]>>


\* the log entry of the current round
CurrentRoundLog(state) == state.RoundsLog[state.RoundNumber + 1]

\* the round log the closing by player c has to leave: the closer, each
\* player's penalty, winner and loser by strictly lower penalty
ClosingLogged(c, log) ==
    /\ log.ClosedByPlayerID = c
    /\ DOMAIN log.PenaltyPoints = PlayerIDs
    /\ \A p \in PlayerIDs : log.PenaltyPoints[p] = Penalty(p)
    /\ \A p \in PlayerIDs :
          Penalty(p) < Penalty(1 - p) =>
              log.WinnerPlayerID = p /\ log.LoserPlayerID = 1 - p
    /\ Penalty(0) = Penalty(1) =>
          log.WinnerPlayerID = -1 /\ log.LoserPlayerID = -1

\* C33: after every round closing by player c, the current round's log
\* records the closer id c, the penalty of each player, the round winner as
\* the player with the strictly lower penalty and the round loser as the other
\* (both -1 on a tie), and the Chinchon flag set exactly when a Chinchon hand
\* ended the round; for ordinary closings and for closings that end the game
\* by Chinchon alike.
C33_ClosingIsLogged ==
    [][\A c \in PlayerIDs :
          ClosesNow(c) =>
              /\ ClosingLogged(c, CurrentRoundLog(g'))
              /\ CurrentRoundLog(g').WasChinchon <=> SomeChinchon]_vars


\* S is a run: at least 3 cards of one suit whose numbers are consecutive
IsRunOfCards(S) ==
    /\ Cardinality(S) >= 3
    /\ \A c, d \in S : c.Suit = d.Suit
    /\ \E a \in 1..MaxNumber : {c.Number : c \in S} = a..(a + Cardinality(S) - 1)

\* S is a set: 3 or 4 cards of one number with pairwise distinct suits
IsSetOfCards(S) ==
    /\ Cardinality(S) \in {3, 4}
    /\ \A c, d \in S : c.Number = d.Number
    /\ \A c, d \in S : c # d => c.Suit # d.Suit

\* the cards of hand h that belong to a run or a set formed of cards of h
InSomeRunOrSet(h) ==
    UNION {S \in SUBSET CardsOf(h) : IsRunOfCards(S) \/ IsSetOfCards(S)}

\* C34: for every hand of distinct cards, every group ValidGroups returns is
\* a run (at least 3 cards of one suit with consecutive numbers) or a set (3
\* or 4 cards of one number with pairwise distinct suits), and a card of the
\* hand is covered by some returned group if and only if it belongs to at
\* least one run or set that can be formed from the hand's cards.
C34_ValidGroups ==
    (call.op = "ValidGroups" /\ NoCardTwice(call.hand)) =>
        /\ \A grp \in call.result :
              /\ Cardinality(CardsOf(grp)) = Len(grp)
              /\ CardsOf(grp) \subseteq CardsOf(call.hand)
              /\ IsRunOfCards(CardsOf(grp)) \/ IsSetOfCards(CardsOf(grp))
        /\ UNION {CardsOf(grp) : grp \in call.result} = InSomeRunOrSet(call.hand)

\* the groups of a hand with a run, a set through a card of the run, and a
\* card that no run and no set takes
C34_Witness ==
    /\ call.op = "ValidGroups"
    /\ \E run, set \in call.result :
          /\ IsRunOfCards(CardsOf(run))
          /\ IsSetOfCards(CardsOf(set))
          /\ CardsOf(run) \cap CardsOf(set) # {}
    /\ CardsOf(call.hand) \ InSomeRunOrSet(call.hand) # {}


\* C35: in every state reachable from New() (max-points at least 1) through
\* RunAction calls alone, the Close action is not possible for either player:
\* the has-drawn flag is true only while the turn player holds 8 cards, and
\* CanClose requires exactly 7. So the round-finished and game-ended flags
\* stay false, the round number stays 1, both scores stay 0 and no
\* confirmation is accepted.
C35_CloseNeverPossible ==
    g.RuleMaxPoints >= 1 =>
        /\ \A p \in PlayerIDs :
              /\ ~IsPossible(NewActionClose(p), g)
              /\ checkAction(g, NewActionClose(p)) # noErr
              /\ SerializeAction(NewActionClose(p)) \notin Stored
        /\ g.HasDrawnCard => Len(Hand(g.TurnPlayerID)) = HandSize + 1
        /\ \A p \in PlayerIDs : CanClose(g, p) => Len(Hand(p)) = HandSize
        /\ ~g.IsRoundFinished
        /\ ~g.IsGameEnded
        /\ g.RoundNumber = 1
        /\ \A p \in PlayerIDs : Score(p) = 0
        /\ \A p \in ActionPlayerIDs :
              checkAction(g, NewActionConfirmRoundFinished(p)) # noErr

\* the turn player, whose 7 cards could close the round, has drawn an eighth
\* that fits the groups too, and Close is refused
C35_Witness ==
    /\ RanAction({DRAW_FROM_DECK, DRAW_FROM_DISCARD})
    /\ err = noErr
    /\ g.RuleMaxPoints >= 1
    /\ g.HasDrawnCard
    /\ Len(Hand(g.TurnPlayerID)) = HandSize + 1
    /\ CanCloseAnySize(g, g.TurnPlayerID)
    /\ ~CanClose(g, g.TurnPlayerID)
    /\ checkAction(g, NewActionClose(g.TurnPlayerID)) = errActionNotPossible

====
